---- MODULE Spec2Model ----
(***************************************************************************)
(* chomp3: MPEG audio frame header splitting and field decoding.           *)
(*                                                                         *)
(*   src/src/constants.rs  field widths                                    *)
(*   src/src/utils.rs      CURSOR (process-wide AtomicUsize) and access()  *)
(*   src/src/header.rs     RawHeader::new and the per-field decoders       *)
(*                                                                         *)
(* A bit buffer (BitSlice<u8>) is a sequence over {0,1}; TLA+ sequences    *)
(* are 1-based, so Rust's array[a..b] is SubSeq(array, a+1, b).            *)
(***************************************************************************)
EXTENDS Integers, Sequences, FiniteSets, TLC

\* ------------------------------------------------------------------------
\* constants.rs
\* ------------------------------------------------------------------------
HEADER_SIZE == 32
SYNC_SIZE == 12
ID_SIZE == 1
LAYER_SIZE == 2
PROTECTION_BIT_SIZE == 1
BITRATE_SIZE == 4
FREQUENCY_SIZE == 2
PADDING_BIT_SIZE == 1
PRIVATE_BIT_SIZE == 1
MODE_SIZE == 2
MODE_EXTENSION_SIZE == 2
COPYRIGHT_BIT_SIZE == 1
HOME_SIZE == 1
EMPHASIS_SIZE == 2

\* ------------------------------------------------------------------------
\* Bounds of the model
\* ------------------------------------------------------------------------
\* RawHeader::new calls one thread makes, one after the other.
MaxCalls == 2

\* Preemptions of a thread that is inside access by another thread.
MaxSwitches == 2

\* The threads of the process.
Threads == {"t1", "t2"}

\* ------------------------------------------------------------------------
\* Input buffers
\* ------------------------------------------------------------------------
Bit == {0, 1}

Fill(n, b) == [i \in 1..n |-> b]

\* A header-sized buffer whose only set bit is bit k (0-based).
OneHot(k) == [i \in 1..HEADER_SIZE |-> IF i = k + 1 THEN 1 ELSE 0]

\* sync=1^12 version=1 layer=01 protection=0 bitrate=0001 frequency=00, rest 0
Example ==
    Fill(12, 1) \o <<1>> \o <<0, 1>> \o <<0>> \o <<0, 0, 0, 1>> \o Fill(12, 0)

\* Two headers back to back (an 8-byte window): zeros, then ones.
TwoFrames == Fill(HEADER_SIZE, 0) \o Fill(HEADER_SIZE, 1)

\* Buffers of whole bytes that are shorter than a header.
ShortBuffers == {Fill(8 * n, 1) : n \in 0..3}

FullBuffers ==
    {OneHot(k) : k \in 0..(HEADER_SIZE - 1)} \cup {Fill(HEADER_SIZE, 1), Example}

Buffers == FullBuffers \cup ShortBuffers \cup {TwoFrames}

\* The buffers of the concurrent runs.
ConcBuffers == {Example, Fill(HEADER_SIZE, 0), Fill(HEADER_SIZE, 1)}

InputSet(which) ==
    IF which = "full" THEN Buffers ELSE IF which = "conc" THEN ConcBuffers ELSE {}

\* ------------------------------------------------------------------------
\* State
\* ------------------------------------------------------------------------
VARIABLES
    CURSOR,   \* utils.rs: static CURSOR: AtomicUsize
    live,     \* the threads that run in this process
    inputs,   \* which buffers callers pass: "full" or "conc" ("none": no calls)
    pc,       \* per thread: position inside RawHeader::new / access
    array,    \* per thread: the buffer of the running call
    field,    \* per thread: index (1..13) of the struct field being evaluated
    cursor,   \* per thread: access()'s local `cursor`
    o,        \* per thread: access()'s local `o`
    raw,      \* per thread: the field values evaluated so far, in order
    entry,    \* per thread: CURSOR as the call's first access loaded it
    calls,    \* per thread: calls started
    budget,   \* calls each thread makes at most
    running,  \* scheduler: the thread that took the last step
    switches, \* scheduler: preemptions so far
    bits,     \* decoder argument: the BitVec<u8>
    version,  \* decoder argument: MPEG_Version
    layer,    \* decoder argument: Layer
    decoder,  \* which decoder ran ("none" before)
    out       \* what it returned, or how it panicked

splitVars ==
    <<CURSOR, live, inputs, pc, array, field, cursor, o, raw, entry, calls, budget,
      running, switches>>
decVars == <<bits, version, layer, decoder, out>>
vars == <<CURSOR, live, inputs, pc, array, field, cursor, o, raw, entry, calls,
          budget, running, switches, bits, version, layer, decoder, out>>

\* ------------------------------------------------------------------------
\* header.rs: RawHeader::new, utils.rs: access
\* ------------------------------------------------------------------------
\* The size argument of the thirteen access calls, in evaluation order
\* (a struct expression evaluates its fields in the order written).
FieldSizes ==
    << SYNC_SIZE, ID_SIZE, LAYER_SIZE, PROTECTION_BIT_SIZE, BITRATE_SIZE,
       FREQUENCY_SIZE, PADDING_BIT_SIZE, PRIVATE_BIT_SIZE, MODE_SIZE,
       MODE_EXTENSION_SIZE, COPYRIGHT_BIT_SIZE, HOME_SIZE, EMPHASIS_SIZE >>

FieldNames ==
    << "sync", "id", "layer", "protection_bit", "bitrate", "frequency",
       "padding_bit", "private_bit", "mode", "mode_extension",
       "copyright_bit", "home", "emphasis" >>

NumFields == Len(FieldSizes)

\* array[cursor..cursor + size] is in range
InRange(a, c, size) == c + size <= Len(a)

\* array[cursor..cursor + size].to_bitvec()
SliceBits(a, c, size) == SubSeq(a, c + 1, c + size)

\* (a store of the width alone, without the position it was read at)
StoreWidthOnly(c, size) == size

\* the value access stores back: cursor + size
Advance(c, size) == c + size

\* The scheduler lets thread t take the next step.
Preempts(t) ==
    /\ running \in Threads
    /\ running # t
    /\ pc[running] \in {"load", "slice", "store"}

Sched(t) ==
    /\ Preempts(t) => switches < MaxSwitches
    /\ switches' = IF Preempts(t) THEN switches + 1 ELSE switches
    /\ running' = t

\* A caller invokes RawHeader::new(b).
Call(t, b) ==
    /\ pc[t] \in {"idle", "done", "panicked"}
    /\ Sched(t)
    /\ calls[t] < budget
    /\ calls' = [calls EXCEPT ![t] = @ + 1]
    /\ array' = [array EXCEPT ![t] = b]
    /\ field' = [field EXCEPT ![t] = 1]
    /\ raw' = [raw EXCEPT ![t] = <<>>]
    /\ o' = [o EXCEPT ![t] = <<>>]
    /\ entry' = [entry EXCEPT ![t] = -1]
    /\ pc' = [pc EXCEPT ![t] = "load"]
    /\ UNCHANGED <<CURSOR, live, inputs, cursor, budget>>
    /\ UNCHANGED decVars

\* let cursor = CURSOR.load(Relaxed);
Load(t) ==
    /\ pc[t] = "load"
    /\ Sched(t)
    /\ cursor' = [cursor EXCEPT ![t] = CURSOR]
    /\ entry' = [entry EXCEPT ![t] = IF field[t] = 1 THEN CURSOR ELSE @]
    /\ pc' = [pc EXCEPT ![t] = "slice"]
    /\ UNCHANGED <<CURSOR, live, inputs, array, field, o, raw, calls, budget>>
    /\ UNCHANGED decVars

\* let o = array[cursor..cursor + size].to_bitvec();
\* Indexing out of range panics; the call unwinds with CURSOR as it is.
Slice(t) ==
    /\ pc[t] = "slice"
    /\ Sched(t)
    /\ IF InRange(array[t], cursor[t], FieldSizes[field[t]])
         THEN /\ o' = [o EXCEPT ![t] =
                          SliceBits(array[t], cursor[t], FieldSizes[field[t]])]
              /\ pc' = [pc EXCEPT ![t] = "store"]
         ELSE /\ o' = o
              /\ pc' = [pc EXCEPT ![t] = "panicked"]
    /\ UNCHANGED <<CURSOR, live, inputs, array, field, cursor, raw, entry, calls,
                   budget>>
    /\ UNCHANGED decVars

\* CURSOR.store(cursor + size, Relaxed); o
\* The returned group becomes the next field; after the thirteenth the
\* RawHeader is complete.
Store(t) ==
    /\ pc[t] = "store"
    /\ Sched(t)
    /\ CURSOR' = Advance(cursor[t], FieldSizes[field[t]])
    /\ raw' = [raw EXCEPT ![t] = Append(@, o[t])]
    /\ IF field[t] = NumFields
         THEN /\ pc' = [pc EXCEPT ![t] = "done"]
              /\ field' = field
         ELSE /\ pc' = [pc EXCEPT ![t] = "load"]
              /\ field' = [field EXCEPT ![t] = @ + 1]
    /\ UNCHANGED <<live, inputs, array, cursor, o, entry, calls, budget>>
    /\ UNCHANGED decVars

NextSplit ==
    \/ \E t \in live, b \in InputSet(inputs) : Call(t, b)
    \/ \E t \in live : Load(t)
    \/ \E t \in live : Slice(t)
    \/ \E t \in live : Store(t)

InitSplit(ts, bs, n) ==
    /\ CURSOR = 0
    /\ live = ts
    /\ inputs = bs
    /\ pc = [t \in Threads |-> "idle"]
    /\ array = [t \in Threads |-> <<>>]
    /\ field = [t \in Threads |-> 1]
    /\ cursor = [t \in Threads |-> 0]
    /\ o = [t \in Threads |-> <<>>]
    /\ raw = [t \in Threads |-> <<>>]
    /\ entry = [t \in Threads |-> -1]
    /\ calls = [t \in Threads |-> 0]
    /\ budget = n
    /\ running = "none"
    /\ switches = 0

NoDecoder ==
    /\ bits = [head |-> 0, bits |-> <<>>, dead |-> 0]
    /\ version = "One"
    /\ layer = "One"
    /\ decoder = "none"
    /\ out = [kind |-> "none", num |-> 0, name |-> ""]

\* One thread calling RawHeader::new again and again.
Init == InitSplit({"t1"}, "full", MaxCalls) /\ NoDecoder

Spec == Init /\ [][NextSplit]_vars

\* A process that calls RawHeader::new once.
InitOnce == InitSplit({"t1"}, "full", 1) /\ NoDecoder

SpecOnce == InitOnce /\ [][NextSplit]_vars

\* Several threads, each calling RawHeader::new once on a buffer of its own.
InitConc == InitSplit(Threads, "conc", 1) /\ NoDecoder

SpecConc == InitConc /\ [][NextSplit]_vars

\* The outcome of a finished call: the RawHeader, or the panic that unwound it.
Result(t) ==
    IF pc[t] = "done"
      THEN [status |-> "ok", groups |-> raw[t]]
      ELSE IF pc[t] = "panicked"
        THEN [status |-> "panic", groups |-> <<>>]
        ELSE [status |-> "running", groups |-> <<>>]

\* RawHeader::new(a) run without interruption with CURSOR = c on entry:
\* the thirteen access calls one after the other.
RECURSIVE SplitFrom(_, _, _, _)
SplitFrom(a, c, i, acc) ==
    IF i > NumFields
      THEN [status |-> "ok", groups |-> acc]
      ELSE IF ~InRange(a, c, FieldSizes[i])
        THEN [status |-> "panic", groups |-> <<>>]
        ELSE SplitFrom(a, Advance(c, FieldSizes[i]), i + 1,
                       Append(acc, SliceBits(a, c, FieldSizes[i])))

\* ... as the first call of the process (CURSOR is initialised to 0).
AsFirstCall(a) == SplitFrom(a, 0, 1, <<>>)

\* What the access call thread t is in has come to: it returned `o`
\* (pc "store" onwards), or the slice index panicked.
AccessResult(t) ==
    [kind |-> IF pc[t] = "panicked" THEN "panic" ELSE "ok",
     requested |-> FieldSizes[field[t]],
     remaining |-> Len(array[t]) - cursor[t]]

Finished(t) == pc[t] \in {"done", "panicked"}

\* ------------------------------------------------------------------------
\* bitvec: BitVec<u8> (= BitVec<u8, Lsb0>) and BitVec::into_vec
\* ------------------------------------------------------------------------
\* A BitVec<u8> is a span of bits inside a Vec<u8>: `head` is the index of
\* the first live bit inside the first byte, `bits` are the live bits, and
\* the other (dead) bits of the first and last byte have an unspecified
\* value, here `dead` for all of them.  to_bitvec() of a slice keeps the
\* head the slice has in its buffer.
\* bits.into_vec() returns the storage: one u8 per BYTE the span touches,
\* not one u8 per bit.  With Lsb0, bit j of a byte has the value 2^j.
ElemBits == 8

Pow2(j) == IF j = 0 THEN 1 ELSE IF j = 1 THEN 2 ELSE IF j = 2 THEN 4
           ELSE IF j = 3 THEN 8 ELSE IF j = 4 THEN 16 ELSE IF j = 5 THEN 32
           ELSE IF j = 6 THEN 64 ELSE 128

BitAt(bv, p) ==
    IF p >= bv.head /\ p < bv.head + Len(bv.bits)
      THEN bv.bits[p - bv.head + 1]
      ELSE bv.dead

RECURSIVE ElemValue(_, _, _)
ElemValue(bv, e, j) ==
    IF j = ElemBits THEN 0
    ELSE BitAt(bv, ElemBits * (e - 1) + j) * Pow2(j) + ElemValue(bv, e, j + 1)

NumElems(bv) ==
    IF Len(bv.bits) = 0 THEN 0
    ELSE (bv.head + Len(bv.bits) + ElemBits - 1) \div ElemBits

IntoVec(bv) == [e \in 1..NumElems(bv) |-> ElemValue(bv, e, 0)]

\* ------------------------------------------------------------------------
\* header.rs: the field decoders
\* ------------------------------------------------------------------------
Versions == {"Reserved", "One", "Two", "TwoPointFive"}
Layers == {"Reserved", "Three", "Two", "One"}

Panic(msg) == [kind |-> "panic", num |-> 0, name |-> msg]
Variant(v) == [kind |-> "ok", num |-> 0, name |-> v]
Number(n) == [kind |-> "ok", num |-> n, name |-> ""]

\* impl From<BitVec<u8>> for Layer
LayerFrom(bv) ==
    IF Len(bv.bits) # LAYER_SIZE THEN Panic("assert_eq")
    ELSE LET v == IntoVec(bv) IN
         CASE v = <<0, 0>> -> Panic("reserved")
           [] v = <<0, 1>> -> Variant("Three")
           [] v = <<1, 0>> -> Variant("Two")
           [] v = <<1, 1>> -> Variant("One")
           [] OTHER -> Panic("unreachable")

\* The arms of Bitrate::from_bitvecu8's outer match: for each byte pattern
\* the values of (One,One) (One,Two) (One,Three) (Two,One) (Two,Two)
\* (Two,Three), in the order the inner match lists them.
BitrateArms ==
    << <<<<0, 0, 0, 1>>, <<32, 32, 32, 32, 32, 8>>>>,
       <<<<0, 0, 1, 0>>, <<64, 48, 40, 64, 48, 16>>>>,
       <<<<0, 0, 1, 1>>, <<96, 56, 48, 96, 56, 24>>>>,
       <<<<0, 1, 0, 0>>, <<128, 64, 56, 128, 64, 32>>>>,
       <<<<0, 1, 0, 1>>, <<160, 80, 64, 160, 80, 64>>>>,
       <<<<0, 1, 1, 0>>, <<192, 96, 80, 192, 96, 80>>>>,
       <<<<0, 1, 1, 1>>, <<224, 112, 96, 224, 112, 56>>>>,
       <<<<1, 0, 0, 0>>, <<256, 128, 112, 256, 128, 64>>>>,
       <<<<1, 0, 0, 1>>, <<288, 160, 128, 288, 160, 128>>>>,
       <<<<1, 0, 1, 0>>, <<320, 192, 160, 320, 192, 160>>>>,
       <<<<1, 0, 1, 1>>, <<352, 224, 192, 352, 224, 112>>>>,
       <<<<1, 1, 0, 0>>, <<384, 256, 224, 384, 256, 128>>>>,
       <<<<1, 1, 0, 1>>, <<416, 320, 256, 416, 320, 256>>>>,
       <<<<1, 1, 1, 0>>, <<448, 384, 320, 448, 384, 320>>>> >>

\* The inner match (version, layer) of one arm; every other pair is
\* unreachable!().
BitrateInner(row, ver, lay) ==
    CASE ver = "One" /\ lay = "One" -> Number(row[1])
      [] ver = "One" /\ lay = "Two" -> Number(row[2])
      [] ver = "One" /\ lay = "Three" -> Number(row[3])
      [] ver = "Two" /\ lay = "One" -> Number(row[4])
      [] ver = "Two" /\ lay = "Two" -> Number(row[5])
      [] ver = "Two" /\ lay = "Three" -> Number(row[6])
      [] OTHER -> Panic("unreachable")

\* Bitrate::from_bitvecu8
BitrateFrom(bv, ver, lay) ==
    IF Len(bv.bits) # BITRATE_SIZE THEN Panic("assert_eq")
    ELSE LET v == IntoVec(bv) IN
         IF \E k \in 1..Len(BitrateArms) : BitrateArms[k][1] = v
           THEN LET k == CHOOSE k \in 1..Len(BitrateArms) : BitrateArms[k][1] = v
                IN  BitrateInner(BitrateArms[k][2], ver, lay)
           ELSE Panic("unreachable")

\* Frequency::from_bitvecu8
FrequencyFrom(bv, ver) ==
    IF Len(bv.bits) # FREQUENCY_SIZE THEN Panic("assert_eq")
    ELSE LET v == IntoVec(bv) IN
         CASE v = <<0, 0>> ->
                (CASE ver = "One" -> Number(44100)
                   [] ver = "Two" -> Number(22050)
                   [] ver = "TwoPointFive" -> Number(11025)
                   [] OTHER -> Panic("unreachable"))
           [] v = <<0, 1>> ->
                (CASE ver = "One" -> Number(48000)
                   [] ver = "Two" -> Number(24000)
                   [] ver = "TwoPointFive" -> Number(12000)
                   [] OTHER -> Panic("unreachable"))
           [] v = <<1, 0>> ->
                (CASE ver = "One" -> Number(32000)
                   [] ver = "Two" -> Number(16000)
                   [] ver = "TwoPointFive" -> Number(8000)
                   [] OTHER -> Panic("unreachable"))
           [] v = <<1, 1>> -> Panic("reserved")
           [] OTHER -> Panic("unreachable")

\* impl From<BitVec<u8>> for Emphasis
EmphasisFrom(bv) ==
    IF Len(bv.bits) # EMPHASIS_SIZE THEN Panic("assert_eq")
    ELSE LET v == IntoVec(bv) IN
         CASE v = <<0>> -> Variant("Off")
           [] v = <<1>> -> Variant("On")
           [] OTHER -> Panic("unreachable")

\* A caller converts a bit-group with one of the decoders.
DecodeLayer ==
    /\ decoder = "none"
    /\ decoder' = "Layer"
    /\ out' = LayerFrom(bits)
    /\ UNCHANGED <<bits, version, layer>>
    /\ UNCHANGED splitVars

DecodeBitrate ==
    /\ decoder = "none"
    /\ decoder' = "Bitrate"
    /\ out' = BitrateFrom(bits, version, layer)
    /\ UNCHANGED <<bits, version, layer>>
    /\ UNCHANGED splitVars

DecodeFrequency ==
    /\ decoder = "none"
    /\ decoder' = "Frequency"
    /\ out' = FrequencyFrom(bits, version)
    /\ UNCHANGED <<bits, version, layer>>
    /\ UNCHANGED splitVars

DecodeEmphasis ==
    /\ decoder = "none"
    /\ decoder' = "Emphasis"
    /\ out' = EmphasisFrom(bits)
    /\ UNCHANGED <<bits, version, layer>>
    /\ UNCHANGED splitVars

NextDec == DecodeLayer \/ DecodeBitrate \/ DecodeFrequency \/ DecodeEmphasis

\* The bit-groups handed to the decoders: every group of a width the header
\* has, at every position inside a byte, with its dead bits clear or set.
GroupWidths == {FieldSizes[i] : i \in 2..NumFields}

BitSeqs(n) == [1..n -> Bit]

BitVecs ==
    {[head |-> h, bits |-> b, dead |-> d] :
        h \in 0..(ElemBits - 1),
        b \in UNION {BitSeqs(n) : n \in GroupWidths},
        d \in Bit}

InitDec ==
    /\ InitSplit({}, "none", 0)
    /\ bits \in BitVecs
    /\ version \in Versions
    /\ layer \in Layers
    /\ decoder = "none"
    /\ out = [kind |-> "none", num |-> 0, name |-> ""]

SpecDec == InitDec /\ [][NextDec]_vars

\* ========================================================================
\* Properties
\* ========================================================================
\* The layout the format mandates, written out independently of the code.
ClaimWidths == <<12, 1, 2, 1, 4, 2, 1, 1, 2, 2, 1, 1, 2>>

RECURSIVE ClaimOffset(_)
ClaimOffset(i) == IF i = 1 THEN 0 ELSE ClaimOffset(i - 1) + ClaimWidths[i - 1]

ExpectedGroup(b, i) == [k \in 1..ClaimWidths[i] |-> b[ClaimOffset(i) + k]]

\* C1: a RawHeader::new call on a 32-bit buffer that enters with the cursor
\* at 0 returns (does not panic); its thirteen groups have the widths
\* 12,1,2,1,4,2,1,1,2,2,1,1,2 in order, group i holding exactly the buffer
\* bits from the end of group i-1 on, so bits 0..31 are covered once each;
\* and the cursor ends at 32.
C1_Partition ==
    \A t \in live :
        (calls[t] > 0 /\ entry[t] = 0 /\ Len(array[t]) = 32) =>
            /\ pc[t] # "panicked"
            /\ pc[t] = "done" =>
                  /\ Len(raw[t]) = 13
                  /\ \A i \in 1..13 : raw[t][i] = ExpectedGroup(array[t], i)
                  /\ CURSOR = 32

\* A finished call on the buffer whose only set bit is bit 15: the bit is in
\* the protection_bit group.
C1_Witness ==
    \E t \in live :
        /\ pc[t] = "done"
        /\ entry[t] = 0
        /\ array[t] = OneHot(15)
        /\ raw[t][4] = <<1>>
        /\ raw[t][1] = Fill(12, 0)

\* C2: every finished RawHeader::new(b) on a 32-bit buffer b, whatever calls
\* came before it, started extracting at bit 0 and has the result the same
\* call has as the first call of the process.
C2_HistoryIndependent ==
    \A t \in live :
        (Finished(t) /\ Len(array[t]) = HEADER_SIZE) =>
            /\ entry[t] = 0
            /\ Result(t) = AsFirstCall(array[t])

\* The offset a call running alone has reached when it evaluates field i.
OwnOffset(i) == ClaimOffset(i)

\* C3: with several threads each in RawHeader::new on its own 32-bit
\* buffer, no access uses a cursor another thread's decode wrote (the
\* cursor it loads is the offset its own fields add up to), and every
\* thread obtains the thirteen groups it obtains when running alone.
C3_NoInterference ==
    \A t \in live :
        Len(array[t]) = HEADER_SIZE =>
            /\ pc[t] \in {"slice", "store"} => cursor[t] = OwnOffset(field[t])
            /\ Finished(t) =>
                  /\ Result(t).status = "ok"
                  /\ Result(t).groups = AsFirstCall(array[t]).groups

SyncAllOnes(b) == \A k \in 1..12 : b[k] = 1

NoReservedCode(b) ==
    /\ <<b[14], b[15]>> # <<0, 0>>
    /\ <<b[17], b[18], b[19], b[20]>> \notin {<<0, 0, 0, 0>>, <<1, 1, 1, 1>>}
    /\ <<b[21], b[22]>> # <<1, 1>>

\* C5: decoding a 32-bit input whose first 12 bits are not all ones fails
\* with InvalidSync; decoding one whose first 12 bits are all ones and whose
\* other fields hold no reserved code succeeds.
C5_SyncValidated ==
    \A t \in live :
        (Finished(t) /\ Len(array[t]) = HEADER_SIZE) =>
            /\ ~SyncAllOnes(array[t]) => Result(t).status = "InvalidSync"
            /\ (SyncAllOnes(array[t]) /\ NoReservedCode(array[t])) =>
                   Result(t).status = "ok"

\* C8: a call on a buffer shorter than 32 bits performs no access step (no
\* load of the cursor, no slice, no store: the cursor is not advanced) and
\* ends with the error BufferTooShort.
C8_ShortRejected ==
    \A t \in live :
        (calls[t] > 0 /\ Len(array[t]) < HEADER_SIZE) =>
            /\ pc[t] \notin {"slice", "store"}
            /\ entry[t] = -1
            /\ raw[t] = <<>>
            /\ Finished(t) => Result(t).status = "BufferTooShort"

\* C9: an access for n bits with at least n bits left returns exactly the
\* next n bits and leaves the position n further; an access for more bits
\* than are left ends with the error value BufferExhausted carrying the
\* requested width and the bits remaining, not with a panic.
C9_Take ==
    \A t \in live :
        /\ pc[t] = "store" =>
              o[t] = [k \in 1..FieldSizes[field[t]] |-> array[t][cursor[t] + k]]
        /\ pc[t] = "done" => CURSOR = cursor[t] + FieldSizes[NumFields]
        /\ (pc[t] = "load" /\ field[t] > 1) =>
              CURSOR = cursor[t] + FieldSizes[field[t] - 1]
        /\ (calls[t] > 0 /\ pc[t] \notin {"load", "slice"}
              /\ ~InRange(array[t], cursor[t], FieldSizes[field[t]])) =>
              AccessResult(t) =
                  [kind |-> "BufferExhausted",
                   requested |-> FieldSizes[field[t]],
                   remaining |-> Len(array[t]) - cursor[t]]

\* The typed error a decoder is to return.
DecodeError(e) == [kind |-> "error", num |-> 0, name |-> e]

\* C4: the reserved codes are answered with a typed error, never a panic:
\* Layer of 00 is ReservedLayer, Bitrate of 1111 is ReservedBitrate and
\* Frequency of 11 is ReservedFrequency, whatever version and layer are
\* passed along.
C4_ReservedRejected ==
    /\ (decoder = "Layer" /\ bits.bits = <<0, 0>>) =>
           out = DecodeError("ReservedLayer")
    /\ (decoder = "Bitrate" /\ bits.bits = <<1, 1, 1, 1>>) =>
           out = DecodeError("ReservedBitrate")
    /\ (decoder = "Frequency" /\ bits.bits = <<1, 1>>) =>
           out = DecodeError("ReservedFrequency")

\* The 4-bit code as a number, most significant bit first.
CodeOf(b) == 8 * b[1] + 4 * b[2] + 2 * b[3] + b[4]

\* The ISO bitrate table (kbps), codes 0001..1110.
IsoBitrate(ver, lay) ==
    CASE ver = "One" /\ lay = "One" ->
           <<32, 64, 96, 128, 160, 192, 224, 256, 288, 320, 352, 384, 416, 448>>
      [] ver = "One" /\ lay = "Two" ->
           <<32, 48, 56, 64, 80, 96, 112, 128, 160, 192, 224, 256, 320, 384>>
      [] ver = "One" /\ lay = "Three" ->
           <<32, 40, 48, 56, 64, 80, 96, 112, 128, 160, 192, 224, 256, 320>>
      [] ver = "Two" /\ lay = "One" ->
           <<32, 48, 56, 64, 80, 96, 112, 128, 144, 160, 176, 192, 224, 256>>
      [] OTHER ->
           <<8, 16, 24, 32, 40, 48, 56, 64, 80, 96, 112, 128, 144, 160>>

\* C6: for version One or Two, layer One, Two or Three and a code in
\* 0001..1110, Bitrate::from_bitvecu8 returns the ISO table's entry.
C6_IsoBitrate ==
    (/\ decoder = "Bitrate"
     /\ version \in {"One", "Two"}
     /\ layer \in {"One", "Two", "Three"}
     /\ Len(bits.bits) = 4
     /\ CodeOf(bits.bits) \in 1..14) =>
        out = Number(IsoBitrate(version, layer)[CodeOf(bits.bits)])

\* The frequency table (Hz), codes 00, 01, 10.
ClaimFrequency(ver) ==
    CASE ver = "One" -> <<44100, 48000, 32000>>
      [] ver = "Two" -> <<22050, 24000, 16000>>
      [] OTHER -> <<11025, 12000, 8000>>

\* C7: for version One, Two or TwoPointFive and a code 00, 01 or 10,
\* Frequency::from_bitvecu8 returns the table's value and does not fail.
C7_FrequencyTable ==
    (/\ decoder = "Frequency"
     /\ version \in {"One", "Two", "TwoPointFive"}
     /\ Len(bits.bits) = 2
     /\ bits.bits # <<1, 1>>) =>
        out = Number(ClaimFrequency(version)[2 * bits.bits[1] + bits.bits[2] + 1])

\* C10: the Emphasis decoder returns a value for each of the four 2-bit
\* groups: Off for 00 and On for the other three.
C10_EmphasisTotal ==
    (decoder = "Emphasis" /\ Len(bits.bits) = 2) =>
        out = Variant(IF bits.bits = <<0, 0>> THEN "Off" ELSE "On")

====
